---- MODULE Spec2Model ----
(***************************************************************************)
(* The lead-funnel engine of lumina-lead-scraper: the SQLite store         *)
(* (scraper/database.py), the sliding-window rate limiter and the stage    *)
(* executor (scraper/telegram_automator.py) and the cycle controller and   *)
(* daemon loop (scraper/autonomous_scraper.py).                            *)
(*                                                                         *)
(* Seven specifications share the state:                                   *)
(*   StoreSpec    the public methods of LeadDatabase called in any order   *)
(*   DatedStoreSpec  the keyed inserts of LeadDatabase as the date changes *)
(*   CalendarSpec the methods of StoreSpec as the date changes             *)
(*   CommitSpec   the mutating methods of LeadDatabase, commit by commit   *)
(*   LimiterSpec  join_group / send_dm of TelegramAutomator under a clock  *)
(*   Spec         the daemon: run -> _scrape_cycle -> process_project      *)
(*   BatchSpec    the daemon's cycles without end, every join failing      *)
(***************************************************************************)
EXTENDS Integers, Sequences, FiniteSets, TLC

VARIABLES
    db,          \* LeadDatabase: one field per table, each a sequence of rows (row id = index)
    today,       \* the calendar date of datetime.now() (strftime('%Y-%m-%d'))
    now,         \* the timestamp of datetime.now(), in ticks
    join_times,  \* TelegramAutomator.join_times
    dm_times,    \* TelegramAutomator.dm_times
    join_log,    \* history: every timestamp ever appended to join_times
    dm_log,      \* history: every timestamp ever appended to dm_times
    ret,         \* what the last call returned (with the time of the call and the
                 \* limiter's answer, for a call of the automator)
    config,      \* AutonomousScraper.config (the keys the cycle branches on)
    running,     \* AutonomousScraper.running
    error_count, \* AutonomousScraper.error_count
    pc,          \* where run() stands: the await it is suspended at
    cycles,      \* how many times _scrape_cycle has been entered
    to_process,  \* _scrape_cycle: the batch, the ids of the rows fetched
    cur,         \* _scrape_cycle: the position in the batch of the project in process
    pp_group_id, \* process_project: what add_telegram_group(joined=True) returned
    pp_admins,   \* process_project: what get_group_admins returned
    send_log,    \* history: every send handed to the external capability
    client_connected,  \* TelegramAutomator.client is connected
    conn_open    \* LeadDatabase.conn is open

vars == <<db, today, now, join_times, dm_times, join_log, dm_log, ret,
          config, running, error_count, pc, cycles, to_process, cur,
          pp_group_id, pp_admins, send_log, client_connected, conn_open>>

----------------------------------------------------------------------------
(* Bounds of the model *)

MaxDay == 1            \* dates are 0..MaxDay
MaxAdmins == 1         \* rows of the admins table (StoreSpec)
MaxMessages == 2       \* rows of the messages table (StoreSpec)
MaxTime == 8           \* the clock runs over 0..MaxTime ticks
MaxElapsed == 1        \* ticks an external call may take
TicksPerSecond == 2    \* clock resolution: ticks in one second
max_joins_per_hour == 2  \* TelegramAutomator(max_joins_per_hour=...), configuration
max_dms_per_hour == 1    \* TelegramAutomator(max_dms_per_hour=...), configuration
join_delay == 1        \* TelegramAutomator(join_delay=...), configuration, in ticks
dm_delay == 1          \* TelegramAutomator(dm_delay=...), configuration, in ticks

----------------------------------------------------------------------------
(* Values *)

Null == "NULL"                       \* Python None / SQL NULL
NoId == 0                            \* None where a row id is expected (ids start at 1)
NoRet == [op |-> "none"]             \* nothing returned yet

Addresses == {"0xA", "0xB"}          \* contract addresses the discovery feed returns
Dates == 0..MaxDay

GoodUrl == "https://t.me/alpha"      \* a URL _extract_username resolves
BadUrl == "https://t.me/joinchat/x"  \* a URL with no extractable handle
GroupUrls == {GoodUrl, BadUrl}
Websites == {"https://site"}
Usernames == {"u1", "u2"}
Statuses == {"discovered", "joined", "contacted", "responded", "converted"}

Truthy(x) == x \notin {Null, ""}

RangeOf(s) == {s[i] : i \in DOMAIN s}

SelectIdx(s, Test(_)) == {i \in DOMAIN s : Test(s[i])}

MinOf(S) == CHOOSE x \in S : \A y \in S : x <= y

MaxOf2(a, b) == IF a >= b THEN a ELSE b

----------------------------------------------------------------------------
(* LeadDatabase *)

Metrics == {"tokens_found", "tokens_with_telegram", "unindexed_sites_found",
            "groups_joined", "join_failures", "admins_found", "dms_sent",
            "dms_failed", "responses_received", "conversions"}

EmptyDb ==
    [projects |-> <<>>, telegram_groups |-> <<>>, admins |-> <<>>,
     messages |-> <<>>, daily_metrics |-> <<>>, error_log |-> <<>>]

MetricRow(date) ==
    [date |-> date, tokens_found |-> 0, tokens_with_telegram |-> 0,
     unindexed_sites_found |-> 0, groups_joined |-> 0, join_failures |-> 0,
     admins_found |-> 0, dms_sent |-> 0, dms_failed |-> 0,
     responses_received |-> 0, conversions |-> 0]

\* INSERT OR IGNORE the date's row, then UPDATE metric = metric + 1 WHERE date = ?
IncrementDailyMetric(d, metric, date) ==
    LET rows == d.daily_metrics
        ensured == IF \E i \in DOMAIN rows : rows[i].date = date
                   THEN rows
                   ELSE Append(rows, MetricRow(date))
    IN [d EXCEPT !.daily_metrics =
            [i \in DOMAIN ensured |->
                IF ensured[i].date = date
                THEN [ensured[i] EXCEPT ![metric] = @ + 1]
                ELSE ensured[i]]]

\* UPDATE projects SET status = ? WHERE id = ?
UpdateProjectStatus(d, project_id, status) ==
    [d EXCEPT !.projects =
        [i \in DOMAIN d.projects |->
            IF i = project_id THEN [d.projects[i] EXCEPT !.status = status]
            ELSE d.projects[i]]]

\* A mutant of AddProject: tokens_found is counted on the conflict path too
AddProjectCountsRepeat(d, token, date, ts) ==
    LET same == SelectIdx(d.projects, LAMBDA r : r.contract_address = token.address)
        row == [contract_address |-> token.address, telegram_url |-> token.telegram,
                website |-> token.website, is_indexed |-> Null,
                status |-> "discovered", discovered_at |-> ts, discovered_on |-> date]
    IN IF same # {}
       THEN [db |-> IncrementDailyMetric(d, "tokens_found", date), id |-> MinOf(same)]
       ELSE [db |-> IncrementDailyMetric([d EXCEPT !.projects = Append(@, row)],
                                         "tokens_found", date),
             id |-> Len(d.projects) + 1]

\* The mutant of AddProject: INSERT OR REPLACE, the conflicting row is rewritten
AddProjectReplacing(d, token, date, ts) ==
    LET same == SelectIdx(d.projects, LAMBDA r : r.contract_address = token.address)
        row == [contract_address |-> token.address, telegram_url |-> token.telegram,
                website |-> token.website, is_indexed |-> Null,
                status |-> "discovered", discovered_at |-> ts, discovered_on |-> date]
    IN IF same # {}
       THEN [db |-> [d EXCEPT !.projects[MinOf(same)] = row], id |-> MinOf(same)]
       ELSE [db |-> IncrementDailyMetric([d EXCEPT !.projects = Append(@, row)],
                                         "tokens_found", date),
             id |-> Len(d.projects) + 1]

\* INSERT INTO projects; on the UNIQUE(contract_address) conflict SELECT the id
AddProject(d, token, date, ts) ==
    LET same == SelectIdx(d.projects, LAMBDA r : r.contract_address = token.address)
    IN IF same # {}
       THEN [db |-> d, id |-> MinOf(same)]
       ELSE LET row == [contract_address |-> token.address,
                        telegram_url |-> token.telegram,
                        website |-> token.website,
                        is_indexed |-> Null,
                        status |-> "discovered",
                        discovered_at |-> ts,
                        discovered_on |-> date]
                d1 == [d EXCEPT !.projects = Append(@, row)]
                d2 == IncrementDailyMetric(d1, "tokens_found", date)
                d3 == IF Truthy(token.telegram)
                      THEN IncrementDailyMetric(d2, "tokens_with_telegram", date)
                      ELSE d2
            IN [db |-> d3, id |-> Len(d1.projects)]

\* SELECT * FROM projects WHERE contract_address = ?
GetProject(d, contract_address) ==
    SelectIdx(d.projects, LAMBDA r : r.contract_address = contract_address)

\* UPDATE projects SET is_indexed = ?; count the unindexed site
UpdateIndexStatus(d, project_id, is_indexed, date) ==
    LET d1 == [d EXCEPT !.projects =
                  [i \in DOMAIN d.projects |->
                      IF i = project_id
                      THEN [d.projects[i] EXCEPT !.is_indexed = is_indexed]
                      ELSE d.projects[i]]]
    IN IF is_indexed = "0"
       THEN IncrementDailyMetric(d1, "unindexed_sites_found", date)
       ELSE d1

\* A mutant of AddTelegramGroup: the attempt is counted on the conflict path too
AddTelegramGroupCountsRepeat(d, project_id, telegram_url, joined, error, date) ==
    LET row == [project_id |-> project_id, telegram_url |-> telegram_url,
                join_success |-> joined, join_error |-> error]
        fresh == \A i \in DOMAIN d.telegram_groups :
                     \/ d.telegram_groups[i].project_id # project_id
                     \/ d.telegram_groups[i].telegram_url # telegram_url
        d1 == IF fresh THEN [d EXCEPT !.telegram_groups = Append(@, row)] ELSE d
        d2 == IF joined
              THEN UpdateProjectStatus(
                       IncrementDailyMetric(d1, "groups_joined", date),
                       project_id, "joined")
              ELSE IncrementDailyMetric(d1, "join_failures", date)
    IN [db |-> d2, id |-> IF fresh THEN Len(d1.telegram_groups) ELSE NoId]

\* A mutant of AddTelegramGroup: the status is advanced outside the `if joined`
AddTelegramGroupAlwaysJoined(d, project_id, telegram_url, joined, error, date) ==
    IF \E i \in DOMAIN d.telegram_groups :
           /\ d.telegram_groups[i].project_id = project_id
           /\ d.telegram_groups[i].telegram_url = telegram_url
    THEN [db |-> d, id |-> NoId]
    ELSE LET row == [project_id |-> project_id, telegram_url |-> telegram_url,
                     join_success |-> joined, join_error |-> error]
             d1 == [d EXCEPT !.telegram_groups = Append(@, row)]
             d2 == IF joined
                   THEN IncrementDailyMetric(d1, "groups_joined", date)
                   ELSE IncrementDailyMetric(d1, "join_failures", date)
         IN [db |-> UpdateProjectStatus(d2, project_id, "joined"),
             id |-> Len(d1.telegram_groups)]

\* SELECT id FROM telegram_groups WHERE project_id = ? AND telegram_url = ?
GroupOf(d, project_id, telegram_url) ==
    {i \in DOMAIN d.telegram_groups :
        /\ d.telegram_groups[i].project_id = project_id
        /\ d.telegram_groups[i].telegram_url = telegram_url}

\* INSERT INTO telegram_groups; the UNIQUE(project_id, telegram_url) conflict returns None
AddTelegramGroup(d, project_id, telegram_url, joined, error, date) ==
    IF \E i \in DOMAIN d.telegram_groups :
           /\ d.telegram_groups[i].project_id = project_id
           /\ d.telegram_groups[i].telegram_url = telegram_url
    THEN [db |-> d, id |-> NoId]
    ELSE LET row == [project_id |-> project_id, telegram_url |-> telegram_url,
                     join_success |-> joined, join_error |-> error]
             d1 == [d EXCEPT !.telegram_groups = Append(@, row)]
             d2 == IF joined
                   THEN UpdateProjectStatus(
                            IncrementDailyMetric(d1, "groups_joined", date),
                            project_id, "joined")
                   ELSE IncrementDailyMetric(d1, "join_failures", date)
         IN [db |-> d2, id |-> Len(d1.telegram_groups)]

\* INSERT INTO admins; on the UNIQUE(project_id, username) conflict SELECT the id
AddAdmin(d, project_id, group_id, username, is_owner, date) ==
    LET same == SelectIdx(d.admins,
                    LAMBDA r : r.project_id = project_id /\ r.username = username)
    IN IF same # {}
       THEN [db |-> d, id |-> MinOf(same)]
       ELSE LET row == [project_id |-> project_id, group_id |-> group_id,
                        username |-> username, is_owner |-> is_owner]
                d1 == [d EXCEPT !.admins = Append(@, row)]
            IN [db |-> IncrementDailyMetric(d1, "admins_found", date),
                id |-> Len(d1.admins)]

\* admins a LEFT JOIN messages m ON <on>: a pair <<a, m>> for every message row m
\* the ON clause matches to a, and <<a, NoId>> (m.* all NULL) for an a with no match
LeftJoinMessages(d, On(_, _)) ==
    {am \in (DOMAIN d.admins) \X (DOMAIN d.messages) : On(am[1], am[2])}
    \cup {<<a, NoId>> : a \in {x \in DOMAIN d.admins :
                                  \A m \in DOMAIN d.messages : ~On(x, m)}}

\* The mutant of GetUncontactedAdmins: the join forgets AND m.send_success = 1
GetUncontactedAdminsAnyMessage(d, project_id) ==
    LET joined == LeftJoinMessages(d, LAMBDA a, m : d.messages[m].admin_id = a)
    IN {am[1] : am \in {x \in joined :
                           d.admins[x[1]].project_id = project_id /\ x[2] = NoId}}

\* SELECT a.* FROM admins a LEFT JOIN messages m
\*   ON a.id = m.admin_id AND m.send_success = 1
\* WHERE a.project_id = ? AND m.id IS NULL          (the ids of the rows)
GetUncontactedAdmins(d, project_id) ==
    LET joined == LeftJoinMessages(d,
                      LAMBDA a, m : d.messages[m].admin_id = a /\ d.messages[m].send_success)
    IN {am[1] : am \in {x \in joined :
                           d.admins[x[1]].project_id = project_id /\ x[2] = NoId}}

\* The mutant of AddMessage: the status is advanced outside the `if success`
AddMessageAlwaysContacted(d, project_id, admin_id, success, error, date) ==
    LET row == [project_id |-> project_id, admin_id |-> admin_id,
                send_success |-> success, send_error |-> error]
        d1 == [d EXCEPT !.messages = Append(@, row)]
        d2 == IF success
              THEN IncrementDailyMetric(d1, "dms_sent", date)
              ELSE IncrementDailyMetric(d1, "dms_failed", date)
    IN [db |-> UpdateProjectStatus(d2, project_id, "contacted"),
        id |-> Len(d1.messages)]

\* INSERT INTO messages (no uniqueness constraint)
AddMessage(d, project_id, admin_id, success, error, date) ==
    LET row == [project_id |-> project_id, admin_id |-> admin_id,
                send_success |-> success, send_error |-> error]
        d1 == [d EXCEPT !.messages = Append(@, row)]
        d2 == IF success
              THEN UpdateProjectStatus(
                       IncrementDailyMetric(d1, "dms_sent", date),
                       project_id, "contacted")
              ELSE IncrementDailyMetric(d1, "dms_failed", date)
    IN [db |-> d2, id |-> Len(d1.messages)]

\* SELECT 1 FROM messages m JOIN projects p ... WHERE p.contract_address = ? AND m.send_success = 1
WasProjectContacted(d, contract_address) ==
    \E m \in DOMAIN d.messages :
        /\ d.messages[m].send_success
        /\ d.messages[m].project_id \in DOMAIN d.projects
        /\ d.projects[d.messages[m].project_id].contract_address = contract_address

\* INSERT INTO error_log
LogError(d, error_type) ==
    [d EXCEPT !.error_log = Append(@, [error_type |-> error_type, resolved |-> FALSE])]

----------------------------------------------------------------------------
(* TelegramAutomator.  Time is counted in ticks, TicksPerSecond to the      *)
(* second; the hour of the sliding window is scaled down to Hour ticks.     *)
(* self is [join_times, dm_times]; a call at time t returns the object as   *)
(* it leaves it, the time at which it returns and what it returned.         *)

Hour == 4                            \* timedelta(hours=1), in ticks

\* _extract_username: the handle of a t.me URL, None for /joinchat/ and for no URL
ExtractUsername(url) == IF url = GoodUrl THEN "alpha" ELSE Null

\* int(timedelta.total_seconds()): truncation toward zero
IntSeconds(ticks) ==
    IF ticks >= 0 THEN ticks \div TicksPerSecond ELSE -((-ticks) \div TicksPerSecond)

\* What the external join can do: the last two succeed.
JoinFailures == {"Not a group/channel", "FloodWait", "Private channel",
                 "Invalid username", "error"}
JoinOutcomes == JoinFailures \cup {"already_member", "joined"}

\* What the external send can do.
DmFailures == {"Privacy restricted", "Not mutual contact", "Peer flood",
               "FloodWait", "error"}
DmOutcomes == DmFailures \cup {"sent"}

\* The mutant of CanJoin: the comparison with the ceiling is off by one
CanJoinOffByOne(self, t) ==
    LET hour_ago == t - Hour
        kept == SelectSeq(self.join_times, LAMBDA x : x > hour_ago)
        self1 == [self EXCEPT !.join_times = kept]
    IN IF Len(kept) > max_joins_per_hour
       THEN [self |-> self1, allowed |-> FALSE,
             wait |-> MaxOf2(0, IntSeconds(MinOf(RangeOf(kept)) + Hour - t))]
       ELSE [self |-> self1, allowed |-> TRUE, wait |-> 0]

\* _can_join
CanJoin(self, t) ==
    LET hour_ago == t - Hour
        kept == SelectSeq(self.join_times, LAMBDA x : x > hour_ago)
        self1 == [self EXCEPT !.join_times = kept]
    IN IF Len(kept) >= max_joins_per_hour
       THEN [self |-> self1, allowed |-> FALSE,
             wait |-> MaxOf2(0, IntSeconds(MinOf(RangeOf(kept)) + Hour - t))]
       ELSE [self |-> self1, allowed |-> TRUE, wait |-> 0]

\* A mutant of CanDm: the wait is the time since the oldest entry, not the time left
CanDmElapsedWait(self, t) ==
    LET hour_ago == t - Hour
        kept == SelectSeq(self.dm_times, LAMBDA x : x > hour_ago)
        self1 == [self EXCEPT !.dm_times = kept]
    IN IF Len(kept) >= max_dms_per_hour
       THEN [self |-> self1, allowed |-> FALSE,
             wait |-> MaxOf2(0, IntSeconds(t - MinOf(RangeOf(kept))))]
       ELSE [self |-> self1, allowed |-> TRUE, wait |-> 0]

\* A mutant of CanDm: the ceiling is compared with the join window
CanDmSharedWindow(self, t) ==
    LET hour_ago == t - Hour
        kept == SelectSeq(self.dm_times, LAMBDA x : x > hour_ago)
        self1 == [self EXCEPT !.dm_times = kept]
    IN IF Len(self.join_times) >= max_dms_per_hour
       THEN [self |-> self1, allowed |-> FALSE,
             wait |-> MaxOf2(0, IntSeconds(MinOf(RangeOf(self.join_times)) + Hour - t))]
       ELSE [self |-> self1, allowed |-> TRUE, wait |-> 0]

\* _can_dm
CanDm(self, t) ==
    LET hour_ago == t - Hour
        kept == SelectSeq(self.dm_times, LAMBDA x : x > hour_ago)
        self1 == [self EXCEPT !.dm_times = kept]
    IN IF Len(kept) >= max_dms_per_hour
       THEN [self |-> self1, allowed |-> FALSE,
             wait |-> MaxOf2(0, IntSeconds(MinOf(RangeOf(kept)) + Hour - t))]
       ELSE [self |-> self1, allowed |-> TRUE, wait |-> 0]

\* The mutant of JoinGroup: the timestamp is recorded for every attempt that
\* reaches the external capability, whatever it answers
JoinGroupRecordsAttempt(self, t, telegram_url, outcome, elapsed) ==
    IF ExtractUsername(telegram_url) = Null
    THEN [self |-> self, now |-> t, ok |-> FALSE, err |-> "Could not extract username",
          can |-> "unchecked", wait |-> 0, invoked |-> FALSE, appended |-> <<>>,
          slept |-> 0]
    ELSE LET chk == CanJoin(self, t)
             ok == outcome \in {"already_member", "joined"}
         IN IF ~chk.allowed
            THEN [self |-> chk.self, now |-> t, ok |-> FALSE, err |-> "Rate limited",
                  can |-> "denied", wait |-> chk.wait, invoked |-> FALSE,
                  appended |-> <<>>, slept |-> 0]
            ELSE [self |-> [chk.self EXCEPT !.join_times = Append(@, t + elapsed)],
                  now |-> t + elapsed, ok |-> ok, err |-> IF ok THEN Null ELSE outcome,
                  can |-> "allowed", wait |-> 0, invoked |-> TRUE,
                  appended |-> <<t + elapsed>>, slept |-> 0]

\* join_group, the external capability answering `outcome` after `elapsed` ticks
JoinGroup(self, t, telegram_url, outcome, elapsed) ==
    IF ExtractUsername(telegram_url) = Null
    THEN [self |-> self, now |-> t, ok |-> FALSE, err |-> "Could not extract username",
          can |-> "unchecked", wait |-> 0, invoked |-> FALSE, appended |-> <<>>,
          slept |-> 0]
    ELSE LET chk == CanJoin(self, t)
         IN IF ~chk.allowed
            THEN [self |-> chk.self, now |-> t, ok |-> FALSE, err |-> "Rate limited",
                  can |-> "denied", wait |-> chk.wait, invoked |-> FALSE,
                  appended |-> <<>>, slept |-> 0]
            ELSE IF outcome = "joined"
            THEN [self |-> [chk.self EXCEPT !.join_times = Append(@, t + elapsed)],
                  now |-> t + elapsed + join_delay, ok |-> TRUE, err |-> Null,
                  can |-> "allowed", wait |-> 0, invoked |-> TRUE,
                  appended |-> <<t + elapsed>>, slept |-> join_delay]
            ELSE [self |-> chk.self, now |-> t + elapsed,
                  ok |-> (outcome = "already_member"),
                  err |-> IF outcome = "already_member" THEN Null ELSE outcome,
                  can |-> "allowed", wait |-> 0, invoked |-> TRUE,
                  appended |-> <<>>, slept |-> 0]

\* send_dm, the external capability answering `outcome` after `elapsed` ticks
SendDm(self, t, outcome, elapsed) ==
    LET chk == CanDm(self, t)
    IN IF ~chk.allowed
       THEN [self |-> chk.self, now |-> t, ok |-> FALSE, err |-> "Rate limited",
             can |-> "denied", wait |-> chk.wait, invoked |-> FALSE,
             appended |-> <<>>, slept |-> 0]
       ELSE IF outcome = "sent"
       THEN [self |-> [chk.self EXCEPT !.dm_times = Append(@, t + elapsed)],
             now |-> t + elapsed + dm_delay, ok |-> TRUE, err |-> Null,
             can |-> "allowed", wait |-> 0, invoked |-> TRUE,
             appended |-> <<t + elapsed>>, slept |-> dm_delay]
       ELSE [self |-> chk.self, now |-> t + elapsed, ok |-> FALSE, err |-> outcome,
             can |-> "allowed", wait |-> 0, invoked |-> TRUE,
             appended |-> <<>>, slept |-> 0]

----------------------------------------------------------------------------
(* StoreSpec: the store's methods called in any order, with the arguments  *)
(* the pipeline gives them (a Lead's own group URL, a group row and an     *)
(* admin row of the same Lead), all on one date.                           *)

\* What the discovery feed returns for an address: with or without links.
Tokens ==
    [address : Addresses, telegram : {GoodUrl}, website : Websites]
        \cup [address : Addresses, telegram : {Null}, website : {Null}]

\* What list-admins returns for one admin.
AdminInfos ==
    {[username |-> "u1", is_owner |-> TRUE], [username |-> "u2", is_owner |-> FALSE]}

\* CURRENT_TIMESTAMP: whole seconds
Timestamp == now \div TicksPerSecond

automator == <<now, join_times, dm_times, join_log, dm_log>>

handles == <<client_connected, conn_open>>

daemon == <<config, running, error_count, pc, cycles, to_process, cur,
            pp_group_id, pp_admins, send_log, handles>>

\* The state after AutonomousScraper.__init__; google_index.only_target_unindexed
\* and google_index.enabled are left at their default, True
Init ==
    /\ db = EmptyDb
    /\ today = 0
    /\ now = 0
    /\ join_times = <<>>
    /\ dm_times = <<>>
    /\ join_log = <<>>
    /\ dm_log = <<>>
    /\ ret = NoRet
    /\ running = FALSE
    /\ error_count = 0
    /\ pc = "init"
    /\ cycles = 0
    /\ to_process = <<>>
    /\ cur = 0
    /\ pp_group_id = NoId
    /\ pp_admins = <<>>
    /\ send_log = <<>>
    /\ config = [only_target_unindexed |-> TRUE]
    /\ client_connected = FALSE
    /\ conn_open = TRUE

StoreCall(op, r) ==
    /\ db' = r.db
    /\ ret' = [op |-> op, val |-> r.id]
    /\ UNCHANGED <<today, automator, daemon>>

add_project(token) ==
    StoreCall("add_project", AddProject(db, token, today, Timestamp))

add_telegram_group(project_id, joined, error) ==
    /\ db.projects[project_id].telegram_url # Null
    /\ StoreCall("add_telegram_group", AddTelegramGroup(db, project_id, db.projects[project_id].telegram_url,
                                  joined, error, today))

add_admin(project_id, group_id, admin) ==
    /\ Len(db.admins) < MaxAdmins
    /\ db.telegram_groups[group_id].project_id = project_id
    /\ StoreCall("add_admin", AddAdmin(db, project_id, group_id, admin.username, admin.is_owner, today))

add_message(project_id, admin_id, success, error) ==
    /\ Len(db.messages) < MaxMessages
    /\ admin_id # NoId => db.admins[admin_id].project_id = project_id
    /\ StoreCall("add_message", AddMessage(db, project_id, admin_id, success, error, today))

StoreNext ==
    \/ \E token \in Tokens : add_project(token)
    \/ \E p \in DOMAIN db.projects : add_telegram_group(p, TRUE, Null)
    \/ \E p \in DOMAIN db.projects : add_telegram_group(p, FALSE, "Private channel")
    \/ \E p \in DOMAIN db.projects, g \in DOMAIN db.telegram_groups, a \in AdminInfos :
           add_admin(p, g, a)
    \/ \E p \in DOMAIN db.projects, a \in DOMAIN db.admins \cup {NoId} :
           add_message(p, a, TRUE, Null)
    \/ \E p \in DOMAIN db.projects, a \in DOMAIN db.admins \cup {NoId} :
           add_message(p, a, FALSE, "Privacy restricted")

StoreSpec == Init /\ [][StoreNext]_vars

\* DatedStoreSpec: the inserts with a uniqueness key (a repeated call inserts nothing)
\* while the calendar date of datetime.now() advances
Midnight ==
    /\ today < MaxDay
    /\ today' = today + 1
    /\ UNCHANGED <<db, automator, ret, daemon>>

DatedStoreNext ==
    \/ \E token \in Tokens : add_project(token)
    \/ \E p \in DOMAIN db.projects : add_telegram_group(p, TRUE, Null)
    \/ \E p \in DOMAIN db.projects : add_telegram_group(p, FALSE, "Private channel")
    \/ \E p \in DOMAIN db.projects, g \in DOMAIN db.telegram_groups, a \in AdminInfos :
           add_admin(p, g, a)
    \/ Midnight

DatedStoreSpec == Init /\ [][DatedStoreNext]_vars

\* CalendarSpec: every method of StoreSpec while the calendar date advances; the
\* feed keeps returning one token, with a group link and a website
CalendarTokens ==
    {t \in Tokens : t.address = "0xA" /\ Truthy(t.telegram) /\ Truthy(t.website)}

CalendarNext ==
    \/ \E token \in CalendarTokens : add_project(token)
    \/ \E p \in DOMAIN db.projects : add_telegram_group(p, TRUE, Null)
    \/ \E p \in DOMAIN db.projects : add_telegram_group(p, FALSE, "Private channel")
    \/ \E p \in DOMAIN db.projects, g \in DOMAIN db.telegram_groups, a \in AdminInfos :
           add_admin(p, g, a)
    \/ \E p \in DOMAIN db.projects, a \in DOMAIN db.admins \cup {NoId} :
           add_message(p, a, TRUE, Null)
    \/ \E p \in DOMAIN db.projects, a \in DOMAIN db.admins \cup {NoId} :
           add_message(p, a, FALSE, "Privacy restricted")
    \/ Midnight

CalendarSpec == Init /\ [][CalendarNext]_vars

\* CommitSpec: the same methods run commit by commit.  db is the durable state:
\* every method commits its INSERT first (conn.commit()), then each
\* _increment_daily_metric and update_project_status commits on its own.
\* ret holds the method that is running and the commits it has still to make;
\* the process may stop between any two of them.
Pending(op, project_id, steps) ==
    [op |-> op, project_id |-> project_id, pending |-> steps]

NoneRunning == IF ret = NoRet THEN TRUE ELSE ret.pending = <<>>

Idle == pc = "init" /\ NoneRunning

CommitInsert(d, frame) ==
    /\ Idle
    /\ db' = d
    /\ ret' = frame
    /\ UNCHANGED <<today, automator, daemon>>

\* INSERT INTO projects ...; self.conn.commit()
insert_project(token) ==
    LET row == [contract_address |-> token.address, telegram_url |-> token.telegram,
                website |-> token.website, is_indexed |-> Null,
                status |-> "discovered", discovered_at |-> Timestamp,
                discovered_on |-> today]
    IN IF GetProject(db, token.address) # {}
       THEN CommitInsert(db, Pending("add_project", MinOf(GetProject(db, token.address)), <<>>))
       ELSE CommitInsert([db EXCEPT !.projects = Append(@, row)],
                Pending("add_project", Len(db.projects) + 1,
                    <<[metric |-> "tokens_found"]>>
                    \o (IF Truthy(token.telegram)
                        THEN <<[metric |-> "tokens_with_telegram"]>> ELSE <<>>)))

\* INSERT INTO telegram_groups ...; self.conn.commit()
insert_telegram_group(project_id, joined, error) ==
    LET telegram_url == db.projects[project_id].telegram_url
        row == [project_id |-> project_id, telegram_url |-> telegram_url,
                join_success |-> joined, join_error |-> error]
    IN /\ telegram_url # Null
       /\ IF GroupOf(db, project_id, telegram_url) # {}
          THEN CommitInsert(db, Pending("add_telegram_group", project_id, <<>>))
          ELSE CommitInsert([db EXCEPT !.telegram_groups = Append(@, row)],
                   Pending("add_telegram_group", project_id,
                       IF joined
                       THEN <<[metric |-> "groups_joined"], [status |-> "joined"]>>
                       ELSE <<[metric |-> "join_failures"]>>))

\* INSERT INTO admins ...; self.conn.commit()
insert_admin(project_id, group_id, admin) ==
    LET row == [project_id |-> project_id, group_id |-> group_id,
                username |-> admin.username, is_owner |-> admin.is_owner]
    IN /\ Len(db.admins) < MaxAdmins
       /\ db.telegram_groups[group_id].project_id = project_id
       /\ IF \E a \in DOMAIN db.admins : /\ db.admins[a].project_id = project_id
                                         /\ db.admins[a].username = admin.username
          THEN CommitInsert(db, Pending("add_admin", project_id, <<>>))
          ELSE CommitInsert([db EXCEPT !.admins = Append(@, row)],
                   Pending("add_admin", project_id, <<[metric |-> "admins_found"]>>))

\* INSERT INTO messages ...; self.conn.commit()
insert_message(project_id, admin_id, success, error) ==
    LET row == [project_id |-> project_id, admin_id |-> admin_id,
                send_success |-> success, send_error |-> error]
    IN /\ Len(db.messages) < MaxMessages
       /\ admin_id # NoId => db.admins[admin_id].project_id = project_id
       /\ CommitInsert([db EXCEPT !.messages = Append(@, row)],
              Pending("add_message", project_id,
                  IF success
                  THEN <<[metric |-> "dms_sent"], [status |-> "contacted"]>>
                  ELSE <<[metric |-> "dms_failed"]>>))

\* the next commit of the running method: _increment_daily_metric or
\* update_project_status
next_commit ==
    /\ pc = "init"
    /\ ret # NoRet
    /\ ret.pending # <<>>
    /\ LET step == Head(ret.pending)
       IN db' = IF "metric" \in DOMAIN step
                THEN IncrementDailyMetric(db, step.metric, today)
                ELSE UpdateProjectStatus(db, ret.project_id, step.status)
    /\ ret' = [ret EXCEPT !.pending = Tail(@)]
    /\ UNCHANGED <<today, automator, daemon>>

\* the process ends (kill, power loss): what was committed stays
process_stops ==
    /\ pc = "init"
    /\ pc' = "stopped"
    /\ UNCHANGED <<handles, db, today, automator, ret, config, running, error_count, cycles,
                   to_process, cur, pp_group_id, pp_admins, send_log>>

CommitNext ==
    \/ \E token \in Tokens : insert_project(token)
    \/ \E p \in DOMAIN db.projects : insert_telegram_group(p, TRUE, Null)
    \/ \E p \in DOMAIN db.projects : insert_telegram_group(p, FALSE, "Private channel")
    \/ \E p \in DOMAIN db.projects, g \in DOMAIN db.telegram_groups, a \in AdminInfos :
           insert_admin(p, g, a)
    \/ \E p \in DOMAIN db.projects, a \in DOMAIN db.admins \cup {NoId} :
           insert_message(p, a, TRUE, Null)
    \/ \E p \in DOMAIN db.projects, a \in DOMAIN db.admins \cup {NoId} :
           insert_message(p, a, FALSE, "Privacy restricted")
    \/ next_commit
    \/ process_stops

CommitSpec == Init /\ [][CommitNext]_vars

----------------------------------------------------------------------------
(* LimiterSpec: join_group and send_dm called in any order while time passes *)

Self == [join_times |-> join_times, dm_times |-> dm_times]

Returned(op, r) ==
    [op |-> op, at |-> now, ok |-> r.ok, err |-> r.err, can |-> r.can, wait |-> r.wait,
     invoked |-> r.invoked, slept |-> r.slept]

AutomatorCall(op, r) ==
    /\ r.now <= MaxTime
    /\ now' = r.now
    /\ join_times' = r.self.join_times
    /\ dm_times' = r.self.dm_times
    /\ join_log' = IF op = "join_group" THEN join_log \o r.appended ELSE join_log
    /\ dm_log' = IF op = "send_dm" THEN dm_log \o r.appended ELSE dm_log
    /\ ret' = Returned(op, r)

join_group(telegram_url, outcome, elapsed) ==
    /\ AutomatorCall("join_group", JoinGroup(Self, now, telegram_url, outcome, elapsed))
    /\ UNCHANGED <<db, today, daemon>>

send_dm(outcome, elapsed) ==
    /\ AutomatorCall("send_dm", SendDm(Self, now, outcome, elapsed))
    /\ UNCHANGED <<db, today, daemon>>

Tick ==
    /\ now < MaxTime
    /\ now' = now + 1
    /\ UNCHANGED <<db, today, join_times, dm_times, join_log, dm_log, ret, daemon>>

LimiterNext ==
    \/ \E u \in GroupUrls, o \in JoinOutcomes, e \in 0..MaxElapsed : join_group(u, o, e)
    \/ \E o \in DmOutcomes, e \in 0..MaxElapsed : send_dm(o, e)
    \/ Tick

LimiterSpec == Init /\ [][LimiterNext]_vars

----------------------------------------------------------------------------
(* Spec: the daemon.  run() is one coroutine, suspended at one await at a   *)
(* time; pc names the await and an action is the code run from one await to *)
(* the next.  A signal and the passing of time interleave with it.  The     *)
(* batch holds the ids of the fetched rows: process_project reads from its  *)
(* snapshot only the id and the group URL, which no statement updates.      *)
(* The clock is coarse here: an external call and the short sleeps (cooldown, *)
(* idle, backoff) take less than a tick, the inter-cycle interval and the    *)
(* long pause take less than a tick or an hour.                              *)

MaxCycles == 2                 \* cycles one run of the daemon enters
MaxFound == 2                  \* tokens the discovery feed returns to one cycle
max_errors_before_pause == 2   \* monitoring.max_errors_before_pause, configuration

BatchLimit == 20               \* get_uncontacted_projects(limit=20)
SkipLimit == 1000              \* get_uncontacted_projects(limit=1000)

\* What check_indexed answers: indexed, not indexed, unknown (None).
IndexAnswers == {"1", "0", Null}

\* What get_group_admins returns: nothing, an admin, an admin and the owner.
AdminListings ==
    {<<>>,
     <<[username |-> "u2", is_owner |-> FALSE]>>,
     <<[username |-> "u2", is_owner |-> FALSE], [username |-> "u1", is_owner |-> TRUE]>>}

\* What the external join and send answer to process_project: every failure takes
\* the same path, with its own error text.
StageJoinOutcomes == {"joined", "already_member", "Private channel"}
StageDmOutcomes == {"sent", "Privacy restricted"}

\* How long a sleep of the loop lasts, in ticks.
SleepTicks == {0, Hour}

\* What scrape_with_filters returns, the chains one after the other.
Found == UNION {[1..n -> Tokens] : n \in 0..MaxFound}

\* The mutant of Uncontacted: the WHERE clause forgets status = 'discovered'
UncontactedAnyStatus(d, only_unindexed) ==
    {i \in DOMAIN d.projects :
        /\ d.projects[i].telegram_url # Null
        /\ only_unindexed => d.projects[i].is_indexed = "0"}

\* WHERE status = 'discovered' AND telegram_url IS NOT NULL [AND is_indexed = 0]
Uncontacted(d, only_unindexed) ==
    {i \in DOMAIN d.projects :
        /\ d.projects[i].status = "discovered"
        /\ d.projects[i].telegram_url # Null
        /\ only_unindexed => d.projects[i].is_indexed = "0"}

\* get_uncontacted_projects: ORDER BY discovered_at DESC LIMIT ?, the rows of one
\* second in any order; every list the query can return
GetUncontactedProjects(d, limit, only_unindexed) ==
    LET rows == Uncontacted(d, only_unindexed)
        n == Cardinality(rows)
        k == IF n < limit THEN n ELSE limit
        orders == {s \in [1..n -> rows] :
                      /\ \A i, j \in 1..n : i # j => s[i] # s[j]
                      /\ \A i, j \in 1..n : i < j =>
                             d.projects[s[i]].discovered_at >= d.projects[s[j]].discovered_at}
    IN IF n = 0 THEN {<<>>} ELSE {SubSeq(s, 1, k) : s \in orders}

\* _scrape_cycle: the tokens whose address is not in skip_addresses, each address once
RECURSIVE NewTokens(_, _)
NewTokens(tokens, skip_addresses) ==
    IF tokens = <<>>
    THEN <<>>
    ELSE IF Head(tokens).address \notin skip_addresses
         THEN <<Head(tokens)>> \o NewTokens(Tail(tokens),
                                            skip_addresses \cup {Head(tokens).address})
         ELSE NewTokens(Tail(tokens), skip_addresses)

\* _scrape_cycle: for token in new_tokens: self.db.add_project(token)
RECURSIVE AddProjects(_, _, _, _)
AddProjects(d, tokens, date, ts) ==
    IF tokens = <<>>
    THEN d
    ELSE AddProjects(AddProject(d, Head(tokens), date, ts).db, Tail(tokens), date, ts)

\* _check_indexes, check_indexed answering check_indexed[address] for a token's website
RECURSIVE CheckIndexes(_, _, _, _)
CheckIndexes(d, tokens, check_indexed, date) ==
    IF tokens = <<>>
    THEN d
    ELSE LET token == Head(tokens)
             project == GetProject(d, token.address)
             d1 == IF Truthy(token.website) /\ project # {}
                      /\ check_indexed[token.address] # Null
                   THEN UpdateIndexStatus(d, MinOf(project),
                                          check_indexed[token.address], date)
                   ELSE d
         IN CheckIndexes(d1, Tail(tokens), check_indexed, date)

\* process_project: for admin in admins: db.add_admin(...)
RECURSIVE AddAdmins(_, _, _, _, _)
AddAdmins(d, project_id, group_id, listing, date) ==
    IF listing = <<>>
    THEN d
    ELSE AddAdmins(AddAdmin(d, project_id, group_id, Head(listing).username,
                            Head(listing).is_owner, date).db,
                   project_id, group_id, Tail(listing), date)

\* The mutant of TargetAdmin: always the first admin returned
TargetAdminFirst(listing) == listing[1]

\* process_project: next((a for a in admins if a['is_owner']), admins[0])
TargetAdmin(listing) ==
    IF \E i \in DOMAIN listing : listing[i].is_owner
    THEN listing[MinOf({i \in DOMAIN listing : listing[i].is_owner})]
    ELSE listing[1]

\* get_group_admins: no handle, no admins
GetGroupAdmins(telegram_url, listing) ==
    IF ExtractUsername(telegram_url) = Null THEN <<>> ELSE listing

\* run: self.running = True; await self.telegram.start(), outside the try: when it
\* raises, run raises
run(started) ==
    /\ pc = "init"
    /\ running' = TRUE
    /\ client_connected' = started
    /\ pc' = IF started THEN "loop" ELSE "raised"
    /\ UNCHANGED <<db, today, automator, ret, config, error_count, cycles, to_process,
                   cur, pp_group_id, pp_admins, send_log, conn_open>>

\* _handle_signal: the flag is read again only by `while self.running`
_handle_signal ==
    /\ pc \notin {"stopped", "disconnected", "returned", "raised"}
    /\ running' = FALSE
    /\ UNCHANGED <<handles, db, today, automator, ret, config, error_count, pc, cycles,
                   to_process, cur, pp_group_id, pp_admins, send_log>>

\* run: the head of the loop; is_active_hours is what _is_active_hours answers
while_running(is_active_hours) ==
    /\ pc = "loop"
    /\ IF ~running
       THEN pc' = "stopped" /\ UNCHANGED cycles
       ELSE IF ~is_active_hours
       THEN pc' = "idle" /\ UNCHANGED cycles
       ELSE cycles < MaxCycles /\ pc' = "cycle" /\ cycles' = cycles + 1
    /\ UNCHANGED <<handles, db, today, automator, ret, config, running, error_count, to_process,
                   cur, pp_group_id, pp_admins, send_log>>

\* run: _scrape_cycle returned; self.error_count = 0; await asyncio.sleep(check_interval)
CycleReturns ==
    /\ pc' = "interval"
    /\ error_count' = 0
    /\ to_process' = <<>>
    /\ cur' = 0

\* _scrape_cycle: the next project of the batch, or the end of the cycle
NextProject ==
    IF cur < Len(to_process)
    THEN pc' = "join" /\ cur' = cur + 1 /\ UNCHANGED <<to_process, error_count>>
    ELSE CycleReturns

\* _scrape_cycle: process_project returned `result`; the cooldown
ProjectDone(result) ==
    /\ pp_group_id' = NoId
    /\ pp_admins' = <<>>
    /\ IF result.dm_sent \/ result.joined
       THEN pc' = "cooldown" /\ UNCHANGED <<to_process, cur, error_count>>
       ELSE NextProject

\* _scrape_cycle up to the first process_project: tokens is what the feed returns,
\* known what get_uncontacted_projects(limit=1000, only_unindexed=False) returns,
\* limit the size of the outreach batch
ScrapeCycle(tokens, known, limit) ==
    /\ pc = "cycle"
    /\ LET skip_addresses ==
               {db.projects[known[i]].contract_address : i \in DOMAIN known}
           new_tokens == NewTokens(tokens, skip_addresses)
           added == AddProjects(db, new_tokens, today, Timestamp)
           with_website == {new_tokens[i].address :
                               i \in {j \in DOMAIN new_tokens : Truthy(new_tokens[j].website)}}
       IN IF new_tokens = <<>>
          THEN db' = db /\ CycleReturns
          ELSE \E check_indexed \in [with_website -> IndexAnswers] :
                   /\ db' = CheckIndexes(added, new_tokens, check_indexed, today)
                   /\ \E batch \in GetUncontactedProjects(db', limit,
                                                         config.only_target_unindexed) :
                          IF batch = <<>>
                          THEN CycleReturns
                          ELSE /\ to_process' = batch
                               /\ cur' = 1
                               /\ pc' = "join"
                               /\ UNCHANGED error_count
    /\ UNCHANGED <<handles, today, automator, ret, config, running, cycles, pp_group_id,
                   pp_admins, send_log>>

_scrape_cycle(tokens, known) == ScrapeCycle(tokens, known, BatchLimit)

\* process_project, step 1: join_group and the record of the attempt
process_project_join(outcome) ==
    /\ pc = "join"
    /\ LET project_id == to_process[cur]
           telegram_url == db.projects[project_id].telegram_url
           r == JoinGroup(Self, now, telegram_url, outcome, 0)
       IN IF ~Truthy(telegram_url)
          THEN /\ ProjectDone([joined |-> FALSE, dm_sent |-> FALSE])
               /\ UNCHANGED <<db, automator, ret>>
          ELSE /\ AutomatorCall("join_group", r)
               /\ IF ~r.ok
                  THEN /\ db' = AddTelegramGroup(db, project_id, telegram_url, FALSE,
                                                 r.err, today).db
                       /\ ProjectDone([joined |-> FALSE, dm_sent |-> FALSE])
                  ELSE LET added == AddTelegramGroup(db, project_id, telegram_url, TRUE,
                                                     Null, today)
                       IN /\ db' = added.db
                          /\ pp_group_id' = added.id
                          /\ pc' = "admins"
                          /\ UNCHANGED <<to_process, cur, error_count, pp_admins>>
    /\ UNCHANGED <<handles, today, config, running, cycles, send_log>>

\* process_project, step 2: get_group_admins and the record of the admins
process_project_admins(listing) ==
    /\ pc = "admins"
    /\ LET project_id == to_process[cur]
           found == GetGroupAdmins(db.projects[project_id].telegram_url, listing)
       IN IF found = <<>>
          THEN /\ db' = db
               /\ ProjectDone([joined |-> TRUE, dm_sent |-> FALSE])
          ELSE /\ db' = IF pp_group_id # NoId
                        THEN AddAdmins(db, project_id, pp_group_id, found, today)
                        ELSE db
               /\ pp_admins' = found
               /\ pc' = "send"
               /\ UNCHANGED <<to_process, cur, error_count, pp_group_id>>
    /\ UNCHANGED <<handles, today, automator, ret, config, running, cycles, send_log>>

\* process_project, step 3: send_dm to the target admin and the record of the message
process_project_send(outcome) ==
    /\ pc = "send"
    /\ LET project_id == to_process[cur]
           target_admin == TargetAdmin(pp_admins)
           r == SendDm(Self, now, outcome, 0)
           uncontacted == {a \in GetUncontactedAdmins(db, project_id) :
                              db.admins[a].username = target_admin.username}
           admin_id == IF uncontacted = {} THEN NoId ELSE MinOf(uncontacted)
       IN /\ AutomatorCall("send_dm", r)
          /\ db' = AddMessage(db, project_id, admin_id, r.ok, r.err, today).db
          /\ send_log' = IF r.invoked
                         THEN Append(send_log, [project_id |-> project_id,
                                                username |-> target_admin.username,
                                                ok |-> r.ok, cycle |-> cycles])
                         ELSE send_log
          /\ ProjectDone([joined |-> TRUE, dm_sent |-> r.ok])
    /\ UNCHANGED <<handles, today, config, running, cycles>>

\* _scrape_cycle: the cooldown after a project is over
cooldown_over ==
    /\ pc = "cooldown"
    /\ NextProject
    /\ UNCHANGED <<handles, db, today, automator, ret, config, running, cycles, pp_group_id,
                   pp_admins, send_log>>

\* run: a sleep of the loop is over, slept ticks later; after the long pause
\* self.error_count = 0
sleep_over(slept) ==
    /\ pc \in {"idle", "interval", "backoff", "pause"}
    /\ slept > 0 => pc \in {"interval", "pause"}
    /\ now + slept <= MaxTime
    /\ now' = now + slept
    /\ pc' = "loop"
    /\ error_count' = IF pc = "pause" THEN 0 ELSE error_count
    /\ UNCHANGED <<handles, db, today, join_times, dm_times, join_log, dm_log, ret, config, running, cycles, to_process, cur,
                   pp_group_id, pp_admins, send_log>>

\* run: `except Exception`, the feed or the store raising as the cycle starts; logged
\* is whether log_error returns (its exception leaves run through `finally`)
cycle_raises(logged) ==
    /\ pc = "cycle"
    /\ error_count' = error_count + 1
    /\ IF logged
       THEN /\ db' = LogError(db, "scrape_cycle")
            /\ pc' = IF error_count' >= max_errors_before_pause THEN "pause" ELSE "backoff"
       ELSE /\ db' = db
            /\ pc' = "stopped"
    /\ UNCHANGED <<handles, today, automator, ret, config, running, cycles, to_process, cur,
                   pp_group_id, pp_admins, send_log>>

\* run: finally: await self.telegram.stop()
telegram_stop ==
    /\ pc = "stopped"
    /\ client_connected' = FALSE
    /\ pc' = "disconnected"
    /\ UNCHANGED <<db, today, automator, ret, config, running, error_count, cycles,
                   to_process, cur, pp_group_id, pp_admins, send_log, conn_open>>

\* The mutant of db_close: run returns without closing the store
db_close_skipped ==
    /\ pc = "disconnected"
    /\ pc' = "returned"
    /\ UNCHANGED <<db, today, automator, ret, config, running, error_count, cycles,
                   to_process, cur, pp_group_id, pp_admins, send_log, handles>>

\* run: finally: self.db.close(); run returns (or raises what left the loop)
db_close ==
    /\ pc = "disconnected"
    /\ conn_open' = FALSE
    /\ pc' = "returned"
    /\ UNCHANGED <<db, today, automator, ret, config, running, error_count, cycles,
                   to_process, cur, pp_group_id, pp_admins, send_log, client_connected>>

Next ==
    \/ \E started \in BOOLEAN : run(started)
    \/ _handle_signal
    \/ \E is_active_hours \in BOOLEAN : while_running(is_active_hours)
    \/ \E tokens \in Found :
           \E known \in GetUncontactedProjects(db, SkipLimit, FALSE) :
               _scrape_cycle(tokens, known)
    \/ \E o \in StageJoinOutcomes : process_project_join(o)
    \/ \E listing \in AdminListings : process_project_admins(listing)
    \/ \E o \in StageDmOutcomes : process_project_send(o)
    \/ cooldown_over
    \/ \E slept \in SleepTicks : sleep_over(slept)
    \/ \E logged \in BOOLEAN : cycle_raises(logged)
    \/ telegram_stop
    \/ db_close

Spec == Init /\ [][Next]_vars

\* BatchSpec: the daemon running cycle after cycle without end, in the case where
\* every join fails.  The 20 rows of the batch are scaled down to ScaledBatchLimit,
\* as the hour is to Hour; the sleeps take less than a tick and the count of the
\* cycles is not kept, so that the cycles can go on for ever.  The feed returns
\* the same data for an address every time: two tokens with a group link and a
\* website, and one without either.
ScaledBatchLimit == 1          \* get_uncontacted_projects(limit=20), scaled

BatchTokens ==
    {t \in Tokens : Truthy(t.telegram)}
        \cup {[address |-> "0xC", telegram |-> Null, website |-> Null]}

BatchFound == UNION {[1..n -> BatchTokens] : n \in 0..MaxFound}

\* run: `while self.running` with the flag set, inside active hours
next_iteration ==
    /\ pc = "loop"
    /\ running
    /\ pc' = "cycle"
    /\ UNCHANGED <<db, today, automator, ret, config, running, error_count, cycles,
                   to_process, cur, pp_group_id, pp_admins, send_log, handles>>

scaled_scrape_cycle(tokens, known) == ScrapeCycle(tokens, known, ScaledBatchLimit)

BatchNext ==
    \/ run(TRUE)
    \/ next_iteration
    \/ \E tokens \in BatchFound :
           \E known \in GetUncontactedProjects(db, SkipLimit, FALSE) :
               scaled_scrape_cycle(tokens, known)
    \/ process_project_join("Private channel")
    \/ sleep_over(0)

BatchSpec == Init /\ [][BatchNext]_vars /\ WF_vars(BatchNext)

----------------------------------------------------------------------------
(* Claims about the store *)

StoredId(d, contract_address) ==
    CHOOSE i \in DOMAIN d.projects : d.projects[i].contract_address = contract_address

IsStored(d, contract_address) ==
    \E i \in DOMAIN d.projects : d.projects[i].contract_address = contract_address

\* C1: add_project with a contract address that is already stored creates no second
\* row, returns the id the first call returned (the id of the row that call inserted,
\* which no later call moves) and leaves every table unchanged.
C1_AddProjectIdempotent ==
    [][/\ \A i \in DOMAIN db.projects :
             /\ i \in DOMAIN db'.projects
             /\ db'.projects[i].contract_address = db.projects[i].contract_address
       /\ \A t \in Tokens : add_project(t) =>
             IF IsStored(db, t.address)
             THEN /\ db' = db
                  /\ ret'.val = StoredId(db, t.address)
             ELSE /\ ret'.val = Len(db.projects) + 1
                  /\ Len(db'.projects) = Len(db.projects) + 1
                  /\ db'.projects[ret'.val].contract_address = t.address]_vars

\* C1's case: a repeated add_project has just returned the id of the first of two
\* rows, of a Lead that was contacted and has group, admin and message rows.
C1_Witness ==
    /\ ret = [op |-> "add_project", val |-> 1]
    /\ Len(db.projects) = 2
    /\ db.projects[1].status = "contacted"
    /\ \E g \in DOMAIN db.telegram_groups : db.telegram_groups[g].project_id = 1
    /\ \E a \in DOMAIN db.admins : db.admins[a].project_id = 1
    /\ \E m \in DOMAIN db.messages : db.messages[m].project_id = 1

HasSuccessfulMessage(d, admin_id) ==
    \E m \in DOMAIN d.messages :
        d.messages[m].admin_id = admin_id /\ d.messages[m].send_success

\* C8: get_uncontacted_admins(lead) is exactly the set of the Lead's admins with no
\* message row with send_success true; an admin with a successful message is never
\* returned, whatever failed rows it has.
C8_UncontactedAdminsExact ==
    \A p \in DOMAIN db.projects :
        /\ \A a \in GetUncontactedAdmins(db, p) :
               a \in DOMAIN db.admins /\ db.admins[a].project_id = p
                   /\ ~HasSuccessfulMessage(db, a)
        /\ \A a \in DOMAIN db.admins :
               (db.admins[a].project_id = p /\ ~HasSuccessfulMessage(db, a))
                   => a \in GetUncontactedAdmins(db, p)

\* C8's case: an admin with a failed and a successful message row is left out, and
\* an admin with only a failed row was returned before.
C8_Witness ==
    \E a \in DOMAIN db.admins :
        /\ HasSuccessfulMessage(db, a)
        /\ \E m \in DOMAIN db.messages :
               db.messages[m].admin_id = a /\ ~db.messages[m].send_success
        /\ a \notin GetUncontactedAdmins(db, db.admins[a].project_id)

\* The rows of telegram_groups of a (Lead, group URL) pair.
GroupRows(d, project_id, telegram_url) ==
    {g \in DOMAIN d.telegram_groups :
        /\ d.telegram_groups[g].project_id = project_id
        /\ d.telegram_groups[g].telegram_url = telegram_url}

\* The value of a counter on a date: 0 while the date has no row.
MetricOn(d, metric, date) ==
    IF \E i \in DOMAIN d.daily_metrics : d.daily_metrics[i].date = date
    THEN d.daily_metrics[CHOOSE i \in DOMAIN d.daily_metrics :
                             d.daily_metrics[i].date = date][metric]
    ELSE 0

\* The attempts add_telegram_group is called with: a success, or a failure with its error.
JoinAttempts == {<<TRUE, Null>>, <<FALSE, "Private channel">>}

\* C9: after any sequence of join attempts there is at most one telegram_groups row
\* per (Lead, group URL), and after every attempt -- the first or a later one -- that
\* row carries the success flag and the error detail of that latest attempt.
C9_OneRowReflectsLatestAttempt ==
    [][\A p \in DOMAIN db.projects : \A att \in JoinAttempts :
          add_telegram_group(p, att[1], att[2]) =>
              LET rows == GroupRows(db', p, db.projects[p].telegram_url)
              IN /\ Cardinality(rows) = 1
                 /\ \A g \in rows :
                        /\ db'.telegram_groups[g].join_success = att[1]
                        /\ db'.telegram_groups[g].join_error = att[2]]_vars

\* C10: add_telegram_group(joined=True) makes the Lead's status joined and adds exactly
\* 1 to groups_joined of the date; add_telegram_group(joined=False) adds exactly 1 to
\* join_failures of the date and leaves the Lead's status as it was.
C10_RecordJoinEffects ==
    [][\A p \in DOMAIN db.projects :
          /\ add_telegram_group(p, TRUE, Null) =>
                 /\ db'.projects[p].status = "joined"
                 /\ MetricOn(db', "groups_joined", today)
                        = MetricOn(db, "groups_joined", today) + 1
          /\ add_telegram_group(p, FALSE, "Private channel") =>
                 /\ db'.projects[p].status = db.projects[p].status
                 /\ MetricOn(db', "join_failures", today)
                        = MetricOn(db, "join_failures", today) + 1]_vars

\* C11: add_message always inserts one new message row and returns its id; with
\* success=true the Lead's status becomes contacted and dms_sent of the date grows by
\* exactly 1; with success=false dms_failed grows by exactly 1 and the status stays.
C11_RecordMessageEffects ==
    [][\A p \in DOMAIN db.projects : \A a \in DOMAIN db.admins \cup {NoId} :
          /\ (add_message(p, a, TRUE, Null) \/ add_message(p, a, FALSE, "Privacy restricted"))
                 => /\ Len(db'.messages) = Len(db.messages) + 1
                    /\ ret'.val = Len(db'.messages)
                    /\ SubSeq(db'.messages, 1, Len(db.messages)) = db.messages
                    /\ db'.messages[ret'.val].project_id = p
                    /\ db'.messages[ret'.val].admin_id = a
          /\ add_message(p, a, TRUE, Null) =>
                 /\ db'.messages[ret'.val].send_success
                 /\ db'.projects[p].status = "contacted"
                 /\ MetricOn(db', "dms_sent", today) = MetricOn(db, "dms_sent", today) + 1
                 /\ MetricOn(db', "dms_failed", today) = MetricOn(db, "dms_failed", today)
          /\ add_message(p, a, FALSE, "Privacy restricted") =>
                 /\ ~db'.messages[ret'.val].send_success
                 /\ db'.projects[p].status = db.projects[p].status
                 /\ MetricOn(db', "dms_failed", today)
                        = MetricOn(db, "dms_failed", today) + 1
                 /\ MetricOn(db', "dms_sent", today) = MetricOn(db, "dms_sent", today)]_vars

\* C11's case: a failed and then a successful message were recorded for a joined
\* Lead, which is now contacted, with one of each counted.
C11_Witness ==
    /\ ret = [op |-> "add_message", val |-> 2]
    /\ ~db.messages[1].send_success /\ db.messages[2].send_success
    /\ db.messages[1].project_id = db.messages[2].project_id
    /\ db.projects[db.messages[2].project_id].status = "contacted"
    /\ \E g \in DOMAIN db.telegram_groups :
           /\ db.telegram_groups[g].project_id = db.messages[2].project_id
           /\ db.telegram_groups[g].join_success
    /\ MetricOn(db, "dms_sent", today) = 1
    /\ MetricOn(db, "dms_failed", today) = 1

\* The rows of daily_metrics of a date.
MetricRows(d, date) == {i \in DOMAIN d.daily_metrics : d.daily_metrics[i].date = date}

\* The Leads whose row was inserted on a date.
InsertedOn(d, date) == {p \in DOMAIN d.projects : d.projects[p].discovered_on = date}

\* The counters of a date: all 0 while the date has no row.
CountersOn(d, date) ==
    IF MetricRows(d, date) = {}
    THEN MetricRow(date)
    ELSE d.daily_metrics[CHOOSE i \in MetricRows(d, date) : TRUE]

\* A date has one daily_metrics row at most, and exactly one once a Lead was inserted
\* on it; its tokens_found is the number of contract addresses first inserted on it.
MetricsScoped(d) ==
    \A date \in Dates :
        /\ Cardinality(MetricRows(d, date)) <= 1
        /\ InsertedOn(d, date) # {} => Cardinality(MetricRows(d, date)) = 1
        /\ MetricOn(d, "tokens_found", date) = Cardinality(InsertedOn(d, date))
        /\ Cardinality({d.projects[p].contract_address : p \in InsertedOn(d, date)})
               = Cardinality(InsertedOn(d, date))

\* C12: before and after every step a date has one daily_metrics row at most (exactly
\* one once anything was inserted on it) and its tokens_found is the number of
\* contract addresses first inserted on that date; no counter ever decreases; a call
\* changes the counters of the current date only, a repeated add_project none.
C12_MetricsDateScoped ==
    [][/\ MetricsScoped(db)
       /\ MetricsScoped(db')
       /\ \A date \in Dates :
              LET before == CountersOn(db, date)
                  after == CountersOn(db', date)
              IN /\ \A metric \in Metrics : after[metric] >= before[metric]
                 /\ date # today => after = before
       /\ (ret'.op = "add_project" /\ Len(db'.projects) = Len(db.projects)) =>
              db'.daily_metrics = db.daily_metrics]_vars

\* C12's case: one Lead was inserted on the first date and one on the second, and an
\* insert repeated on the second date for the first Lead's address added nothing.
C12_Witness ==
    /\ today = 1
    /\ ret = [op |-> "add_project", val |-> 1]
    /\ Len(db.projects) = 2
    /\ db.projects[1].discovered_on = 0 /\ db.projects[2].discovered_on = 1
    /\ MetricOn(db, "tokens_found", 0) = 1
    /\ MetricOn(db, "tokens_found", 1) = 1

CountRows(rows, Test(_)) == Cardinality({i \in DOMAIN rows : Test(rows[i])})

Total(d, metric) ==
    LET RECURSIVE Sum(_)
        Sum(i) == IF i = 0 THEN 0 ELSE d.daily_metrics[i][metric] + Sum(i - 1)
    IN Sum(Len(d.daily_metrics))

\* Every committed row has its counter and its status advance
AllOrNothing(d) ==
    /\ Total(d, "tokens_found") = Len(d.projects)
    /\ Total(d, "tokens_with_telegram")
           = CountRows(d.projects, LAMBDA r : Truthy(r.telegram_url))
    /\ Total(d, "groups_joined") = CountRows(d.telegram_groups, LAMBDA r : r.join_success)
    /\ Total(d, "join_failures") = CountRows(d.telegram_groups, LAMBDA r : ~r.join_success)
    /\ Total(d, "admins_found") = Len(d.admins)
    /\ Total(d, "dms_sent") = CountRows(d.messages, LAMBDA r : r.send_success)
    /\ Total(d, "dms_failed") = CountRows(d.messages, LAMBDA r : ~r.send_success)
    /\ \A g \in DOMAIN d.telegram_groups :
           d.telegram_groups[g].join_success =>
               d.projects[d.telegram_groups[g].project_id].status # "discovered"
    /\ \A m \in DOMAIN d.messages :
           d.messages[m].send_success =>
               d.projects[d.messages[m].project_id].status # "discovered"

\* C13: when the process stops at any point of add_project, add_telegram_group,
\* add_admin or add_message, the durable state shows all of the running
\* operation's effects or none of them: every row has its daily counter, and a
\* successful join row (a successful message row) has the Lead's status advanced.
C13_StoppedStateAllOrNothing ==
    pc = "stopped" => AllOrNothing(db)

\* the same, at the states where every method that was called has returned
CompleteCallsAllOrNothing ==
    NoneRunning => AllOrNothing(db)

----------------------------------------------------------------------------
(* Claims about the rate limiter.  The trailing 60 minutes ending at t are  *)
(* the timestamps x with t - Hour < x <= t.                                 *)

WindowCount(times, t) ==
    Cardinality({i \in DOMAIN times : t - Hour < times[i] /\ times[i] <= t})

InWindow(times, t) == SelectSeq(times, LAMBDA x : x > t - Hour)

\* A step is a call when it sets ret (a call that changes nothing is no step).
IsJoinCall == ret' # ret /\ ret'.op = "join_group"

IsCheckedJoinCall == IsJoinCall /\ ret'.can # "unchecked"

IsDmCall == ret' # ret /\ ret'.op = "send_dm"

\* C3: at every instant t the joins recorded in the trailing 60 minutes ending at t
\* number at most max_joins_per_hour, the sends at most max_dms_per_hour; a timestamp
\* is recorded only by a call whose check found, after pruning, fewer than the ceiling.
C3_WindowNeverExceedsCeiling ==
    /\ [](\A t \in 0..MaxTime :
             /\ WindowCount(join_log, t) <= max_joins_per_hour
             /\ WindowCount(dm_log, t) <= max_dms_per_hour)
    /\ [][/\ join_log' # join_log =>
                 (ret'.can = "allowed" /\ Len(InWindow(join_times, now)) < max_joins_per_hour)
          /\ dm_log' # dm_log =>
                 (ret'.can = "allowed" /\ Len(InWindow(dm_times, now)) < max_dms_per_hour)]_vars

\* C3's case: both windows have been filled, have slid, and been refilled, and a
\* join has just been denied with the window at its ceiling.
C3_Witness ==
    /\ Len(join_log) > max_joins_per_hour
    /\ Len(dm_log) > max_dms_per_hour
    /\ ret.op = "join_group" /\ ret.can = "denied"
    /\ WindowCount(join_log, now) = max_joins_per_hour

\* What the limiter must answer at time t to a list of exactly `ceiling` timestamps,
\* r being what the call returned and after the list as the call left it.
FullWindowAnswer(times, t, r, after) ==
    LET t1 == MinOf(RangeOf(times))
        left == t1 + Hour - t
    IN IF t - t1 < Hour
       THEN /\ r.can = "denied"
            /\ r.wait >= 0
            /\ r.wait * TicksPerSecond <= left
            /\ left < (r.wait + 1) * TicksPerSecond
       ELSE /\ r.can = "allowed"
            /\ r.wait = 0
            /\ t1 \notin RangeOf(after)

\* C4: with N = ceiling timestamps recorded, the oldest being t1, a check at now with
\* now - t1 < 60 minutes is denied with waitSeconds the whole seconds of
\* t1 + 60 minutes - now (never negative); a check with now - t1 >= 60 minutes
\* prunes t1 and is allowed with waitSeconds 0.
C4_DeniedWaitAndRelease ==
    [][/\ (IsCheckedJoinCall /\ Len(join_times) = max_joins_per_hour)
              => FullWindowAnswer(join_times, now, ret', join_times')
       /\ (IsDmCall /\ Len(dm_times) = max_dms_per_hour)
              => FullWindowAnswer(dm_times, now, ret', dm_times')]_vars

\* C4's case: a send was denied with 3 ticks left on the oldest entry, which is
\* 1 whole second.
C4_Witness ==
    /\ ret.op = "send_dm" /\ ret.can = "denied" /\ ret.wait = 1
    /\ Len(dm_times) = max_dms_per_hour
    /\ MinOf(RangeOf(dm_times)) + Hour - now = 3

\* C5: a join call leaves the message window alone and a send call the join window;
\* a check is allowed whenever its own window is below its ceiling, whatever the
\* other window holds.
C5_WindowsIndependent ==
    [][/\ IsJoinCall => (dm_times' = dm_times /\ dm_log' = dm_log)
       /\ IsDmCall => (join_times' = join_times /\ join_log' = join_log)
       /\ (IsDmCall /\ Len(InWindow(dm_times, now)) < max_dms_per_hour)
              => ret'.can = "allowed"
       /\ (IsCheckedJoinCall /\ Len(InWindow(join_times, now)) < max_joins_per_hour)
              => ret'.can = "allowed"]_vars

\* C5's case: a send was allowed while the join window was at its ceiling.
C5_Witness ==
    /\ ret.op = "send_dm" /\ ret.can = "allowed" /\ ret.ok
    /\ Len(dm_log) = 1
    /\ WindowCount(join_times, dm_log[1]) = max_joins_per_hour

\* C6: a call that returns failure records no timestamp: the entries of the window
\* that are within the trailing 60 minutes are the same before and after, and the
\* list is otherwise only pruned.
C6_FailureConsumesNoBudget ==
    [][/\ (IsJoinCall /\ ~ret'.ok) =>
              /\ join_log' = join_log
              /\ join_times' \in {join_times, InWindow(join_times, now)}
              /\ InWindow(join_times', now') = InWindow(join_times, now')
       /\ (IsDmCall /\ ~ret'.ok) =>
              /\ dm_log' = dm_log
              /\ dm_times' \in {dm_times, InWindow(dm_times, now)}
              /\ InWindow(dm_times', now') = InWindow(dm_times, now')]_vars

\* C6's case: the external join failed with one slot of the window left, and the
\* slot is still there.
C6_Witness ==
    /\ ret.op = "join_group" /\ ~ret.ok /\ ret.invoked
    /\ Len(InWindow(join_times, now)) = max_joins_per_hour - 1
    /\ Len(join_log) = max_joins_per_hour - 1

----------------------------------------------------------------------------
(* Claims about the pipeline *)

\* The steps of the chain discovered -> joined -> contacted -> {responded, converted}.
ChainSteps ==
    {<<"discovered", "joined">>, <<"joined", "contacted">>,
     <<"contacted", "responded">>, <<"contacted", "converted">>}

\* C2: over every sequence of cycles, each change of a Lead's status is one step of
\* the chain discovered -> joined -> contacted -> {responded, converted}: no
\* regression and no skipped stage, in particular never discovered -> contacted.
C2_StatusFollowsChain ==
    [][\A p \in DOMAIN db.projects :
          /\ p \in DOMAIN db'.projects
          /\ db'.projects[p].status # db.projects[p].status =>
                 <<db.projects[p].status, db'.projects[p].status>> \in ChainSteps]_vars

\* C7: once a send to an Admin of a Lead has succeeded, no later send is handed to the
\* external capability for that Admin of that Lead.
C7_NoSendAfterSuccess ==
    \A i, j \in DOMAIN send_log :
        (i < j /\ send_log[i].ok /\ send_log[i].project_id = send_log[j].project_id)
            => send_log[j].username # send_log[i].username

\* C7's case: a send to a Lead's admin succeeded in one cycle, and a later cycle has
\* run its outreach and sent to another Lead, leaving the contacted Lead alone.
C7_Witness ==
    \E i, j \in DOMAIN send_log :
        /\ send_log[i].ok
        /\ send_log[i].cycle < send_log[j].cycle
        /\ send_log[j].project_id # send_log[i].project_id
        /\ db.projects[send_log[i].project_id].status = "contacted"
        /\ \A k \in DOMAIN send_log :
               k > i => send_log[k].project_id # send_log[i].project_id

\* The step of process_project that ends at that await
JoinStep == pc = "join" /\ pc' # "join" /\ Truthy(db.projects[to_process[cur]].telegram_url)

AdminsStep == pc = "admins" /\ pc' # "admins"

SendStep == pc = "send" /\ pc' # "send"

\* The Lead process_project is working on
Current == to_process[cur]

SuccessfulMessages(d, project_id) ==
    {m \in DOMAIN d.messages :
        d.messages[m].project_id = project_id /\ d.messages[m].send_success}

\* The admin the outreach is to address: the one flagged as owner if any, else the first
Addressee(listing) ==
    LET owners == {i \in DOMAIN listing : listing[i].is_owner}
    IN IF owners = {} THEN listing[1] ELSE listing[MinOf(owners)]

\* C14: for a candidate with a group link and no prior record, the cycle inserts the
\* Lead as discovered; when the join succeeds the Lead goes from discovered to joined;
\* when at least one admin is listed and the send succeeds the Lead goes from joined
\* to contacted, exactly one message row with success true is created, addressed to
\* the admin flagged as owner if any is flagged, else to the first admin returned, and
\* dms_sent of the date is incremented by 1.
C14_FullSuccess ==
    [][/\ \A p \in DOMAIN db'.projects \ DOMAIN db.projects :
              db'.projects[p].status = "discovered"
       /\ (JoinStep /\ GroupRows(db, Current, db.projects[Current].telegram_url) = {}
              /\ ret'.ok) =>
              /\ db.projects[Current].status = "discovered"
              /\ db'.projects[Current].status = "joined"
              /\ pc' = "admins"
       /\ (SendStep /\ pp_group_id # NoId /\ ret'.ok) =>
              /\ db.projects[Current].status = "joined"
              /\ db'.projects[Current].status = "contacted"
              /\ Len(db'.messages) = Len(db.messages) + 1
              /\ SuccessfulMessages(db, Current) = {}
              /\ SuccessfulMessages(db', Current) = {Len(db'.messages)}
              /\ LET admin_id == db'.messages[Len(db'.messages)].admin_id
                 IN /\ admin_id \in DOMAIN db'.admins
                    /\ db'.admins[admin_id].project_id = Current
                    /\ db'.admins[admin_id].username = Addressee(pp_admins).username
                    /\ db'.admins[admin_id].is_owner = Addressee(pp_admins).is_owner
              /\ MetricOn(db', "dms_sent", today) = MetricOn(db, "dms_sent", today) + 1]_vars

\* C14's case: one cycle, one candidate: joined, two admins listed with the second the
\* owner, the send to the owner succeeded.
C14_Witness ==
    /\ cycles = 1
    /\ Len(db.projects) = 1
    /\ db.projects[1].status = "contacted"
    /\ Len(db.telegram_groups) = 1 /\ db.telegram_groups[1].join_success
    /\ Len(db.admins) = 2
    /\ Len(db.messages) = 1
    /\ db.messages[1].send_success
    /\ db.admins[db.messages[1].admin_id].is_owner
    /\ db.admins[db.messages[1].admin_id].username = "u1"
    /\ MetricOn(db, "dms_sent", today) = 1
    /\ send_log = <<[project_id |-> 1, username |-> "u1", ok |-> TRUE, cycle |-> 1]>>

ZeroAdmins(recorded) ==
    (AdminsStep /\ pc' # "send" /\ recorded) =>
        /\ db'.projects[Current].status = "joined"
        /\ db'.messages = db.messages
        /\ send_log' = send_log
        /\ dm_log' = dm_log
        /\ Current \notin Uncontacted(db', config.only_target_unindexed)

\* C16: when the join succeeds and the admin listing returns no admins,
\* process_project ends with the Lead's status joined, no message row is created, no
\* send is attempted, and the Lead is not in the outreach batch of any later cycle.
C16_ZeroAdmins ==
    [][ZeroAdmins(TRUE)]_vars

\* the same when the successful join was recorded (add_telegram_group returned an id)
ZeroAdminsAfterRecordedJoin ==
    [][ZeroAdmins(pp_group_id # NoId)]_vars

\* A failed join attempt (first: the Lead had no row for the URL) leaves a failure
\* row with its error; a failed send leaves a failure row with its error
FailureRecorded(first) ==
    /\ (JoinStep /\ ~ret'.ok /\ first) =>
           \E g \in DOMAIN db'.telegram_groups :
               /\ db'.telegram_groups[g].project_id = Current
               /\ ~db'.telegram_groups[g].join_success
               /\ db'.telegram_groups[g].join_error = ret'.err
               /\ \/ g \notin DOMAIN db.telegram_groups
                  \/ db'.telegram_groups[g] # db.telegram_groups[g]
    /\ (SendStep /\ ~ret'.ok) =>
           /\ Len(db'.messages) = Len(db.messages) + 1
           /\ db'.messages[Len(db'.messages)].project_id = Current
           /\ ~db'.messages[Len(db'.messages)].send_success
           /\ db'.messages[Len(db'.messages)].send_error = ret'.err
    /\ (error_count' = error_count + 1 /\ pc' \in {"backoff", "pause"}) =>
           Len(db'.error_log) = Len(db.error_log) + 1

\* C18: each failed join attempt, each failed send and each cycle exception results
\* in a new or updated durable row carrying the error detail and the Lead involved,
\* the second and later failures of the same Lead and group URL included.
C18_EveryFailureRecorded ==
    [][FailureRecorded(TRUE)]_vars

\* the same for a Lead's first attempt on a group URL
FirstFailureRecorded ==
    [][FailureRecorded(GroupRows(db, Current, db.projects[Current].telegram_url) = {})]_vars

----------------------------------------------------------------------------
(* Claims about the daemon loop *)

\* An exception reached the `except Exception` of the loop
ExceptionCaught == error_count' = error_count + 1

\* The `while self.running` loop is left
LoopExits == pc # "stopped" /\ pc' = "stopped"

\* C17: every exception raised during an iteration of the run loop, the store being
\* unavailable when the failure is logged included, is caught, followed by the backoff
\* sleep (or the long pause) and the next iteration; the loop exits only after a
\* shutdown signal has cleared the running flag.
C17_FailuresNeverCrash ==
    [][/\ ExceptionCaught => pc' \in {"backoff", "pause"}
       /\ LoopExits => ~running]_vars

\* the same when log_error returns
FailuresWithStoreAvailable ==
    [][(ExceptionCaught /\ db'.error_log # db.error_log) =>
           /\ pc' \in {"backoff", "pause"}
           /\ pc' = "pause" <=> error_count' >= max_errors_before_pause]_vars

Tables == {"projects", "telegram_groups", "admins", "messages", "daily_metrics",
           "error_log"}

\* Every committed row is still there after the step: no table loses a row, a project
\* keeps its address and the rows of the attempt tables are not rewritten
RowsKept ==
    /\ \A t \in Tables : Len(db'[t]) >= Len(db[t])
    /\ \A p \in DOMAIN db.projects :
           db'.projects[p].contract_address = db.projects[p].contract_address
    /\ \A t \in {"telegram_groups", "admins", "messages", "error_log"} :
           SubSeq(db'[t], 1, Len(db[t])) = db[t]

----------------------------------------------------------------------------
(* Claims about rate-limit denials in the pipeline *)

FailureRows(rows, Failed(_)) == {i \in DOMAIN rows : Failed(rows[i])}

\* C20: when the join limiter (the message limiter) denies, process_project does not
\* invoke the external join (send) and does not sleep, and the denial is not recorded
\* as a failed attempt: no telegram_groups or messages row with success false is
\* created and join_failures / dms_failed are not incremented.
C20_DenialNotRecorded ==
    [][/\ ((JoinStep \/ SendStep) /\ ret'.can = "denied") =>
              /\ ~ret'.invoked
              /\ ret'.slept = 0
              /\ now' = now
              /\ FailureRows(db'.telegram_groups, LAMBDA r : ~r.join_success)
                     = FailureRows(db.telegram_groups, LAMBDA r : ~r.join_success)
              /\ FailureRows(db'.messages, LAMBDA r : ~r.send_success)
                     = FailureRows(db.messages, LAMBDA r : ~r.send_success)
              /\ MetricOn(db', "join_failures", today) = MetricOn(db, "join_failures", today)
              /\ MetricOn(db', "dms_failed", today) = MetricOn(db, "dms_failed", today)]_vars

\* the part of C20 about the external capability and the sleep
DenialInvokesNothing ==
    [][((JoinStep \/ SendStep) /\ ret'.can = "denied") =>
           /\ ~ret'.invoked
           /\ ret'.slept = 0
           /\ now' = now
           /\ send_log' = send_log
           /\ join_log' = join_log /\ dm_log' = dm_log]_vars

----------------------------------------------------------------------------
(* Claims about the cycle *)

\* One timestamp was appended to the window and to its history
AppendedOne(times, times_after, log, log_after) ==
    /\ Len(log_after) = Len(log) + 1
    /\ times_after # <<>>
    /\ times_after[Len(times_after)] = log_after[Len(log_after)]
    /\ WindowCount(times_after, now') = WindowCount(InWindow(times, now), now') + 1

SuccessfulSendRecorded ==
    (SendStep /\ ret'.ok) =>
        /\ AppendedOne(dm_times, dm_times', dm_log, dm_log')
        /\ ret'.slept = dm_delay
        /\ now' >= now + dm_delay

\* C21: each process_project call whose join step returns success appends exactly one
\* timestamp to the join window and sleeps join_delay, and each successful send
\* appends exactly one timestamp to the message window and sleeps dm_delay.
C21_SuccessRecordedInWindow ==
    [][/\ (JoinStep /\ ret'.ok) =>
              /\ AppendedOne(join_times, join_times', join_log, join_log')
              /\ ret'.slept = join_delay
              /\ now' >= now + join_delay
       /\ SuccessfulSendRecorded]_vars

\* the part of C21 about the send
SendRecordedInWindow ==
    [][SuccessfulSendRecorded]_vars

\* _scrape_cycle ran from its start to its first await in process_project or its return
DiscoveryStep == pc = "cycle" /\ pc' \in {"join", "interval"}

Inserted == DOMAIN db'.projects \ DOMAIN db.projects

\* C22: in every cycle a candidate whose contract address is already stored, in any
\* status, with or without a group link, is dropped before insertion: its row is not
\* index-checked again and no metric is incremented for it (the discovery counters
\* move by the inserted Leads only).
C22_KnownCandidatesDropped ==
    [][DiscoveryStep =>
           /\ \A p \in DOMAIN db.projects : db'.projects[p] = db.projects[p]
           /\ MetricOn(db', "tokens_found", today)
                  = MetricOn(db, "tokens_found", today) + Cardinality(Inserted)
           /\ MetricOn(db', "unindexed_sites_found", today)
                  = MetricOn(db, "unindexed_sites_found", today)
                        + Cardinality({p \in Inserted : db'.projects[p].is_indexed = "0"})]_vars

\* the same for the stored Leads get_uncontacted_projects still returns
DiscoveredLeadsDropped ==
    [][DiscoveryStep =>
           /\ \A p \in Uncontacted(db, FALSE) : db'.projects[p] = db.projects[p]
           /\ MetricOn(db', "tokens_found", today)
                  = MetricOn(db, "tokens_found", today) + Cardinality(Inserted)]_vars

\* The outreach pass starts on the batch get_uncontacted_projects returns after the
\* discovery, or the cycle returns because that batch is empty
OutreachPass ==
    LET batches == GetUncontactedProjects(db', BatchLimit, config.only_target_unindexed)
    IN IF batches = {<<>>}
       THEN pc' = "interval"
       ELSE pc' = "join" /\ to_process' \in batches /\ cur' = 1

\* C23: every cycle that runs performs the outreach pass, whether or not its discovery
\* returned a new candidate: a Lead left in status discovered by an earlier cycle is
\* in the batch fed to process_project.
C23_EveryCycleDoesOutreach ==
    [][DiscoveryStep => OutreachPass]_vars

\* the same for the cycles that inserted a Lead
InsertingCycleDoesOutreach ==
    [][(DiscoveryStep /\ Inserted # {}) => OutreachPass]_vars

\* The join errors that no retry can cure
TerminalJoinErrors == {"Could not extract username", "Invalid username", "Private channel"}

\* C24: after a terminal per-lead failure (no handle in the group URL, invalid
\* username, private channel) has been recorded for a Lead, no later cycle passes
\* the Lead to process_project again.
C24_TerminalFailureNotRetried ==
    [][JoinStep =>
           ~\E g \in DOMAIN db.telegram_groups :
                /\ db.telegram_groups[g].project_id = Current
                /\ ~db.telegram_groups[g].join_success
                /\ db.telegram_groups[g].join_error \in TerminalJoinErrors]_vars

InCycle == pc \in {"cycle", "join", "admins", "send", "cooldown"}

\* The error accounting of one step of run; logged restricts the raising cycles looked at
ErrorAccounting(logged) ==
    /\ (InCycle /\ pc' = "interval") => error_count' = 0
    /\ (ExceptionCaught /\ logged) =>
           /\ Len(db'.error_log) = Len(db.error_log) + 1
           /\ error_count' >= max_errors_before_pause => pc' = "pause"
           /\ error_count' < max_errors_before_pause => pc' = "backoff"
    /\ (pc = "pause" /\ pc' = "loop") => error_count' = 0
    /\ (pc = "backoff" /\ pc' = "loop") => error_count' = error_count
    /\ (pc = "loop" /\ pc' = "idle") =>
           /\ cycles' = cycles
           /\ db' = db
           /\ error_count' = error_count
    /\ (pc = "idle" /\ pc' = "loop") => error_count' = error_count
    /\ pc' = "loop" => (0 <= error_count' /\ error_count' < max_errors_before_pause)

\* C25: after a cycle that completes the error counter is 0 and the daemon sleeps the
\* interval; after a cycle that raises one error_log entry is written and the counter
\* goes up by 1, then the daemon sleeps the long pause and resets the counter when it
\* has reached max_errors_before_pause, the short pause otherwise; an iteration
\* outside active hours runs no cycle and leaves the counter alone; so at the top of
\* every iteration 0 <= counter < max_errors_before_pause.
C25_ErrorAccounting ==
    [][ErrorAccounting(TRUE)]_vars

\* the same for the raising cycles whose log_error returns
ErrorAccountingWhenLogged ==
    [][ErrorAccounting(pc' # "stopped")]_vars

\* After the signal has cleared the flag no new cycle is started
NoNewCycle == (~running /\ pc = "loop") => pc' = "stopped"

\* After the signal no sleep lasts its full duration: neither a sleep of the loop nor
\* the inter-action delay of a join or a send
NoFullSleep ==
    /\ (~running /\ pc \in {"idle", "interval", "backoff", "pause"}) => now' = now
    /\ (~running /\ (JoinStep \/ SendStep)) => ret'.slept = 0

\* After the signal no further Lead of the batch is started
NoFurtherLead ==
    (~running /\ pc \in {"join", "admins", "send", "cooldown"}) => cur' \in {cur, 0}

\* C26: once the signal has set the flag, no new cycle is started, no sleep
\* (inter-action delay, cooldown, inter-cycle interval, error backoff) is waited out
\* to its full duration, and no further Lead of the current batch is started after
\* the process_project call in progress has finished.
C26_SignalHonoured ==
    [][NoNewCycle /\ NoFullSleep /\ NoFurtherLead]_vars

\* the part of C26 about the top of the loop
SignalHonouredAtLoopTop ==
    [][NoNewCycle]_vars

ContactedIffMessaged(d) ==
    \A p \in DOMAIN d.projects :
        /\ d.projects[p].status = "contacted" <=> SuccessfulMessages(d, p) # {}
        /\ SuccessfulMessages(d, p) # {}
               <=> WasProjectContacted(d, d.projects[p].contract_address)

\* C27: in every store state the pipeline produces, a Lead's status is contacted if
\* and only if it has a message row with send_success true (equivalently
\* was_project_contacted answers true for its address), and a Lead whose status is
\* joined or contacted has a telegram_groups row with join_success true.
C27_StatusMatchesRows ==
    /\ ContactedIffMessaged(db)
    /\ \A p \in DOMAIN db.projects :
           db.projects[p].status \in {"joined", "contacted"} =>
               \E g \in DOMAIN db.telegram_groups :
                   /\ db.telegram_groups[g].project_id = p
                   /\ db.telegram_groups[g].join_success

\* the part of C27 about the messages
ContactedIffMessagedAlways == ContactedIffMessaged(db)

\* The message row process_project writes references the stored admin it targeted
MessageReferencesAdmin(recorded) ==
    (SendStep /\ recorded) =>
        /\ Len(db'.messages) = Len(db.messages) + 1
        /\ LET row == db'.messages[Len(db'.messages)]
           IN /\ row.project_id = Current
              /\ row.admin_id # NoId
              /\ row.admin_id \in DOMAIN db'.admins
              /\ db'.admins[row.admin_id].project_id = Current
              /\ db'.admins[row.admin_id].username = Addressee(pp_admins).username

\* C28: every message row written by process_project has a non-null admin_id, the id
\* of the admins row of the same Lead whose username is the targeted admin, on every
\* path through process_project, a join recorded against an already existing
\* (Lead, group URL) row included.
C28_MessageReferencesAdmin ==
    [][MessageReferencesAdmin(TRUE)]_vars

\* the same when add_telegram_group returned the id of the row it inserted
MessageReferencesAdminAfterRecordedJoin ==
    [][MessageReferencesAdmin(pp_group_id # NoId)]_vars

----------------------------------------------------------------------------
(* Claims about the counters *)

\* C29: after any sequence of store operations, summed over all dates, tokens_found
\* is the number of project rows, groups_joined the number of telegram_groups rows
\* with join_success true, join_failures the number with join_success false,
\* admins_found the number of admin rows, dms_sent the number of message rows with
\* send_success true and dms_failed the number with send_success false.
C29_CountersAgreeWithRows ==
    /\ Total(db, "tokens_found") = Len(db.projects)
    /\ Total(db, "groups_joined") = CountRows(db.telegram_groups, LAMBDA r : r.join_success)
    /\ Total(db, "join_failures") = CountRows(db.telegram_groups, LAMBDA r : ~r.join_success)
    /\ Total(db, "admins_found") = Len(db.admins)
    /\ Total(db, "dms_sent") = CountRows(db.messages, LAMBDA r : r.send_success)
    /\ Total(db, "dms_failed") = CountRows(db.messages, LAMBDA r : ~r.send_success)

\* C29's case: rows counted on two dates, the last call a repeated join record
C29_Witness ==
    /\ today = 1
    /\ Len(db.daily_metrics) = 2
    /\ Len(db.projects) = 1
    /\ MetricOn(db, "tokens_found", 0) = 1 /\ MetricOn(db, "tokens_found", 1) = 0
    /\ Len(db.telegram_groups) = 1
    /\ MetricOn(db, "groups_joined", 1) = 1
    /\ Len(db.admins) = 1
    /\ Len(db.messages) = 2
    /\ MetricOn(db, "dms_sent", 1) = 1 /\ MetricOn(db, "dms_failed", 0) = 1
    /\ ret = [op |-> "add_telegram_group", val |-> NoId]

----------------------------------------------------------------------------
(* Claims about the outreach batch *)

Leads == 1..Cardinality(BatchTokens)

\* The Lead is stored and get_uncontacted_projects selects it
Qualifies(p) ==
    p \in DOMAIN db.projects /\ p \in Uncontacted(db, config.only_target_unindexed)

\* process_project has been called with the Lead
PassedToProcessProject(p) == pc = "join" /\ cur \in DOMAIN to_process /\ to_process[cur] = p

\* C30: if cycles keep running their outreach pass, every Lead that stays in status
\* discovered with a group link (and a not-indexed result) is eventually passed to
\* process_project, even when newer Leads of the batch keep failing to join and so
\* stay in status discovered.
C30_NoStarvation ==
    ([]<>(pc = "join")) =>
        \A p \in Leads : [](Qualifies(p) => <>(PassedToProcessProject(p) \/ ~Qualifies(p)))

====
